---------------------------- MODULE Spec2Model ----------------------------
(***************************************************************************)
(* Model of highresmerge.py: the file-to-file stages overlay, wipeout_topo *)
(* and interpolate acting on a small file system.                          *)
(*                                                                         *)
(* A file is modelled by what line.split() makes of it: a sequence of      *)
(* lines, each a sequence of tokens.  A token is a record                  *)
(*     [form, txt, num, den]                                               *)
(* form says how the text is spelled ("word" for non-numeric text, "int"   *)
(* for 12, "dec" for 1.5, "sci7" for -9.9990000e+03, "sci18" for what      *)
(* numpy.savetxt writes with its default '%.18e'); num/den is the number   *)
(* float() reads from it.  Two tokens are the same text iff the records    *)
(* are equal, so "-9999" and "-9.9990000e+03" are different text for the   *)
(* same number.  Python indexes from 0, the model from 1.                  *)
(***************************************************************************)
EXTENDS Integers, Sequences, FiniteSets, TLC

VARIABLES fs, fs0, opened, call

vars == <<fs, fs0, opened, call>>

\* ------------------------------------------------------------- bounds
MaxRows == 2
MaxCols == 2
MaxRes == 2

\* -------------------------------------------------- program constants
\* data_bathy[i][j+20]
ColOffset == 20
\* data[7:]
WipeSkip == 7
\* header = data[:6]
HeaderLines == 6

\* -------------------------------------------------------------- tokens
Tok(form, num, den) == [form |-> form, txt |-> "", num |-> num, den |-> den]
Word(s) == [form |-> "word", txt |-> s, num |-> 0, den |-> 1]
IntTok(n) == Tok("int", n, 1)

\* the default nan_value of overlay, "-9.9990000e+03"
NanSci == Tok("sci7", -9999, 1)
\* the same number spelled "-9999"
NanInt == IntTok(-9999)
\* the default val of wipeout_topo, "-2"
ValDefault == IntTok(-2)

Abs(n) == IF n < 0 THEN -n ELSE n

RECURSIVE GCD(_, _)
GCD(a, b) == IF b = 0 THEN a ELSE GCD(b, a % b)

\* float(n): defined on numeric text only
IsNumeric(tok) == tok.form # "word"

\* int(float(n)): truncation toward zero
IntOfFloat(tok) ==
    IF tok.num >= 0 THEN tok.num \div tok.den ELSE -((-tok.num) \div tok.den)

\* '%.18e' of the rational num/den (den > 0), as numpy.savetxt writes a cell
Sci18(num, den) ==
    LET g == GCD(Abs(num), den)
    IN  Tok("sci18", num \div g, den \div g)


\* --------------------------------------------------------------- files
Names == {"topo", "bathy", "out"}

Absent == [exists |-> FALSE, lines |-> <<>>]
FileOf(lines) == [exists |-> TRUE, lines |-> lines]

\* The six header lines of a type-3 raster: value first, label second.
Header(r, c, nodata) ==
    << <<IntTok(c), Word("ncols")>>,
       <<IntTok(r), Word("nrows")>>,
       <<IntTok(140), Word("xll")>>,
       <<IntTok(35), Word("yll")>>,
       <<Tok("dec", 1, 2), Word("cellsize")>>,
       <<nodata, Word("nodata_value")>> >>

\* Topography inputs: r rows of w columns, land cells distinct positive
\* elevations, the cells in holes (sea) carrying the no-data text
\* "-9.9990000e+03".
TopoGrid(r, w, holes) ==
    [i \in 1..r |-> [j \in 1..w |->
        IF <<i, j>> \in holes THEN NanSci ELSE IntTok(100 * i + j)]]

HoleSets(r, c) ==
    {{}} \cup {{p} : p \in (1..r) \X (1..c)} \cup {(1..r) \X (1..c)}

\* A topography raster is narrow (c columns) or carries ColOffset further
\* land columns to the right of them.  Its header spells the no-data value
\* as an integer ("-9999") or as the grid does.
TopoFile(r, c, wide, holes, nodata) ==
    LET w == IF wide THEN c + ColOffset ELSE c
    IN  FileOf(Header(r, w, nodata) \o TopoGrid(r, w, holes))

TopoFiles ==
    UNION { { TopoFile(r, c, wide, holes, nodata) :
                wide \in BOOLEAN, holes \in HoleSets(r, c),
                nodata \in {NanInt, NanSci} } :
            r \in 1..MaxRows, c \in 1..MaxCols }

\* Bathymetry cells: "sea" all below sea level, "mixed" with cells at and
\* above sea level (0 in the first row and column), "frac" the same with
\* non-integer depths, "text" as "sea" with a non-numeric cell in the second
\* row.  Every cell of a grid is a different text.
BathyCell(kind, i, j) ==
    CASE kind = "sea"   -> IntTok(-(100 * i + j))
      [] kind = "mixed" -> IF (i + j) % 2 = 0 THEN IntTok(10 * (i - 1) + (j - 1))
                                              ELSE IntTok(-(100 * i + j))
      [] kind = "text"  -> IF i = 2 /\ j = 1 THEN Word("null")
                                               ELSE IntTok(-(100 * i + j))
      [] kind = "frac"  -> IF (i + j) % 2 = 0
                             THEN Tok("dec", 2 * (10 * (i - 1) + (j - 1)) + 1, 2)
                             ELSE Tok("dec", -(2 * (100 * i + j) + 1), 2)

BathyGrid(kind, r, w) == [i \in 1..r |-> [j \in 1..w |-> BathyCell(kind, i, j)]]

\* Layouts of the second input: "raster" a header and r rows of c columns;
\* "padded" the same with ColOffset more columns; "bare" no header, every
\* line a grid row of c + ColOffset columns.
BathyFile(layout, kind, r, c) ==
    CASE layout = "raster" -> FileOf(Header(r, c, NanSci) \o BathyGrid(kind, r, c))
      [] layout = "padded" -> FileOf(Header(r, c + ColOffset, NanSci)
                                     \o BathyGrid(kind, r, c + ColOffset))
      [] layout = "bare"   -> FileOf(BathyGrid(kind, HeaderLines + r, c + ColOffset))

Kinds == {"sea", "mixed", "frac", "text"}
Layouts == {"raster", "padded", "bare"}

\* what a previous run left at the output path
OldFile == FileOf(Header(1, 1, NanSci) \o <<<<IntTok(7)>>>>)

\* ----------------------------------------------------------------- state
\* fs      the file system: name -> [exists, lines]
\* fs0     the file system before the call
\* opened  the files the call has opened for reading, in order
\* call    the call made: its stage, its arguments and how it ended
NoCall == [stage |-> "none"]
Ok == [exc |-> "none", line |-> 0]
Raised(exc, line) == [exc |-> exc, line |-> line]

\* merge scenario: a topography and a (resampled, masked) bathymetry
InitMerge ==
    /\ \E t \in TopoFiles, layout \in Layouts, r \in 1..MaxRows, c \in 1..MaxCols :
          fs = [n \in Names |->
                  CASE n = "topo"  -> t
                    [] n = "bathy" -> BathyFile(layout, "sea", r, c)
                    [] n = "out"   -> Absent]

\* resample and mask scenario: one raster, no topography yet
InitRaster ==
    /\ \E kind \in Kinds, r \in 0..MaxRows, c \in 1..MaxCols, old \in {Absent, OldFile} :
          fs = [n \in Names |->
                  CASE n = "topo"  -> Absent
                    [] n = "bathy" -> BathyFile("raster", kind, r, c)
                    [] n = "out"   -> old]

Init ==
    /\ InitMerge \/ InitRaster
    /\ fs0 = fs
    /\ opened = <<>>
    /\ call = NoCall

\* ---------------------------------------------------------------- overlay
\* [[n for n in line.split()] for line in infile.readlines()]
ReadTokens(filename) == fs[filename].lines

\* np.array(data).shape is printed after each read.  Rows of unequal length
\* make an object array in NumPy before 1.24 and raise ValueError from 1.24
\* on; the repository pins no version, so a call may see either (ragged_ok).
Homogeneous(data) ==
    \A i \in DOMAIN data, k \in DOMAIN data : Len(data[i]) = Len(data[k])

\* data_bathy[i][j+20] is defined for every no-data cell of data_topo
OverlayIndexOK(data_topo, data_bathy, nan_value) ==
    \A i \in DOMAIN data_topo : \A j \in DOMAIN data_topo[i] :
        data_topo[i][j] = nan_value =>
            /\ i <= Len(data_bathy)
            /\ j + ColOffset <= Len(data_bathy[i])

\* the loop over every line of the topography file, header lines included
OverlayMerged(data_topo, data_bathy, nan_value) ==
    [i \in DOMAIN data_topo |-> [j \in DOMAIN data_topo[i] |->
        IF data_topo[i][j] = nan_value
            THEN data_bathy[i][j + ColOffset]
            ELSE data_topo[i][j]]]

OverlayStatus(topo_filename, bathy_filename, outfile, nan_value, ragged_ok) ==
    IF ~fs[bathy_filename].exists THEN Raised("FileNotFoundError", 107)
    ELSE IF ~Homogeneous(ReadTokens(bathy_filename)) /\ ~ragged_ok
        THEN Raised("ValueError", 109)
    ELSE IF ~fs[topo_filename].exists THEN Raised("FileNotFoundError", 110)
    ELSE IF ~Homogeneous(ReadTokens(topo_filename)) /\ ~ragged_ok
        THEN Raised("ValueError", 112)
    ELSE IF ~OverlayIndexOK(ReadTokens(topo_filename), ReadTokens(bathy_filename),
                            nan_value)
        THEN Raised("IndexError", 117)
    ELSE IF fs[outfile].exists THEN Raised("FileExistsError", 120)
    ELSE Ok

OverlayOpened(topo_filename, bathy_filename, status) ==
    IF status.line = 107 THEN <<>>
    ELSE IF status.line \in {109, 110} THEN <<bathy_filename>>
    ELSE <<bathy_filename, topo_filename>>

\* A slip: the output opened before the grid is processed, so that a failing
\* loop leaves an empty file behind.
WriteMergedEarly(status, outfile, data) ==
    IF status = Ok THEN [fs EXCEPT ![outfile] = FileOf(data)]
    ELSE IF status.exc \in {"IndexError", "ValueError"} /\ ~fs[outfile].exists
        THEN [fs EXCEPT ![outfile] = FileOf(<<>>)]
    ELSE fs

\* with open(outfile, 'x') as f: ... after the loop: the file system after
\* a call that ended with status and had data to write
WriteExclusive(status, outfile, data) ==
    IF status = Ok THEN [fs EXCEPT ![outfile] = FileOf(data)] ELSE fs

Overlay ==
    /\ call.stage = "none"
    /\ \E topo_filename \in Names, bathy_filename \in Names, outfile \in Names,
          nan_value \in {NanSci, NanInt}, ragged_ok \in BOOLEAN :
          LET status == OverlayStatus(topo_filename, bathy_filename, outfile,
                                      nan_value, ragged_ok)
              merged == OverlayMerged(ReadTokens(topo_filename),
                                      ReadTokens(bathy_filename), nan_value)
          IN  /\ call' = [stage |-> "overlay", topo_filename |-> topo_filename,
                          bathy_filename |-> bathy_filename, outfile |-> outfile,
                          nan_value |-> nan_value, status |-> status]
              /\ opened' = OverlayOpened(topo_filename, bathy_filename, status)
              /\ fs' = WriteExclusive(status, outfile, merged)
    /\ UNCHANGED fs0

\* ----------------------------------------------------------- wipeout_topo
\* float(data[i+7][j]) is defined for every cell from line index 7 on
WipeoutNumeric(data) ==
    \A i \in DOMAIN data : \A j \in DOMAIN data[i] :
        i > WipeSkip => IsNumeric(data[i][j])

\* for i in range(len(data[7:])): ... if float(data[i+7][j]) >= 0: ... = val
Wiped(data, val) ==
    [i \in DOMAIN data |-> [j \in DOMAIN data[i] |->
        IF i > WipeSkip /\ data[i][j].num >= 0 THEN val ELSE data[i][j]]]

WipeoutStatus(filename, outfile) ==
    IF ~fs[filename].exists THEN Raised("FileNotFoundError", 136)
    ELSE IF ~WipeoutNumeric(ReadTokens(filename)) THEN Raised("ValueError", 140)
    ELSE IF fs[outfile].exists THEN Raised("FileExistsError", 142)
    ELSE Ok

WipeoutTopo ==
    /\ call.stage = "none"
    /\ \E filename \in Names, outfile \in Names, val \in {ValDefault} :
          LET status == WipeoutStatus(filename, outfile)
          IN  /\ call' = [stage |-> "wipeout_topo", filename |-> filename,
                          outfile |-> outfile, val |-> val, status |-> status]
              /\ opened' = IF status.line = 136 THEN <<>> ELSE <<filename>>
              /\ fs' = WriteExclusive(status, outfile, Wiped(ReadTokens(filename), val))
    /\ UNCHANGED fs0

\* ------------------------------------------------------------ interpolate
\* A resolution argument as Python sees it: its type and its value.
PyInt(n) == [type |-> "int", val |-> n]
PyBool(b) == [type |-> "bool", val |-> IF b THEN 1 ELSE 0]
PyFloat(n) == [type |-> "float", val |-> n]

ResValues == {PyInt(n) : n \in 0..MaxRes} \cup {PyBool(TRUE), PyFloat(2)}

\* The input check without its last test.
ResolutionCheckNoOrder(res_in, res_out) ==
    IF res_in.type # "int" \/ res_out.type # "int" THEN Raised("ValueError", 166)
    ELSE IF res_in.val < 1 \/ res_out.val < 1 THEN Raised("ValueError", 169)
    ELSE Ok

\* # Check input: the three tests, in order
ResolutionCheck(res_in, res_out) ==
    IF res_in.type # "int" \/ res_out.type # "int" THEN Raised("ValueError", 166)
    ELSE IF res_in.val < 1 \/ res_out.val < 1 THEN Raised("ValueError", 169)
    ELSE IF res_in.val < res_out.val THEN Raised("ValueError", 172)
    ELSE Ok

\* header = data[:6]; data = data[6:]
HeaderOf(lines) == SubSeq(lines, 1, IF Len(lines) < HeaderLines THEN Len(lines) ELSE HeaderLines)
DataOf(lines) == SubSeq(lines, HeaderLines + 1, Len(lines))

DataNumeric(data) ==
    \A i \in DOMAIN data : \A j \in DOMAIN data[i] : IsNumeric(data[i][j])

\* data = [[int(float(n)) for n in line.split()] for line in data]
IntData(data) ==
    [i \in DOMAIN data |-> [j \in DOMAIN data[i] |-> IntOfFloat(data[i][j])]]

\* scale = res_in // res_out
Scale(res_in, res_out) == res_in.val \div res_out.val

\* A slip: a mesh that keeps the samples as nodes, (n - 1) * scale + 1 points.
MeshCountNodes(n, scale) == (n - 1) * scale + 1

\* np.mgrid[0:len(data):complex(x*scale), ...]: the number of query points
\* along an axis of n samples
MeshCount(n, scale) == n * scale

\* The samples sit at i * n / (n - 1), i = 0..n-1 (np.linspace(0, n, n)), the
\* N queries at k * n / (N - 1), k = 0..N-1 (np.mgrid): query k lies in sample
\* interval CellIndex at the fraction CellNum / (N - 1) of its length.
CellIndex(k, n, N) == IF k = N - 1 THEN n - 2 ELSE (k * (n - 1)) \div (N - 1)
CellNum(k, n, N) == k * (n - 1) - CellIndex(k, n, N) * (N - 1)

\* griddata(points, values, ..., method="linear") at query (k, l), both from
\* 0: barycentric interpolation in the triangle of the Delaunay triangulation
\* holding the query.  The four corners of a grid cell are cocircular, so
\* either diagonal may split the cells: diag says whether they are split from
\* (a, b) to (a+1, b+1) (one choice for the whole grid).  The value is a
\* numerator over (K - 1) * (L - 1).
InterpNum(V, x, y, K, L, k, l, diag) ==
    LET a == CellIndex(k, x, K)
        b == CellIndex(l, y, L)
        du == K - 1
        dv == L - 1
        un == CellNum(k, x, K) * dv
        vn == CellNum(l, y, L) * du
        D == du * dv
        f00 == V[a + 1][b + 1]
        f10 == V[a + 2][b + 1]
        f01 == V[a + 1][b + 2]
        f11 == V[a + 2][b + 2]
    IN  IF diag
          THEN IF un >= vn
                 THEN f00 * D + un * (f10 - f00) + vn * (f11 - f10)
                 ELSE f00 * D + vn * (f01 - f00) + un * (f11 - f01)
          ELSE IF un + vn <= D
                 THEN f00 * D + un * (f10 - f00) + vn * (f01 - f00)
                 ELSE f11 * D + (D - un) * (f01 - f11) + (D - vn) * (f10 - f11)

\* grid, as np.savetxt writes it: one line per row, '%.18e' per cell
InterpGrid(V, scale, diag) ==
    LET x == Len(V)
        y == Len(V[1])
        K == MeshCount(x, scale)
        L == MeshCount(y, scale)
    IN  [k \in 1..K |-> [l \in 1..L |->
            Sci18(InterpNum(V, x, y, K, L, k - 1, l - 1, diag), (K - 1) * (L - 1))]]

Rectangular(data) == \A i \in DOMAIN data : Len(data[i]) = Len(data[1])

InterpolateStatus(in_filename, res_in, out_filename, res_out) ==
    LET data == DataOf(ReadTokens(in_filename))
    IN  IF ResolutionCheck(res_in, res_out) # Ok THEN ResolutionCheck(res_in, res_out)
        ELSE IF ~fs[in_filename].exists THEN Raised("FileNotFoundError", 175)
        ELSE IF ~DataNumeric(data) THEN Raised("ValueError", 181)
        \* rows of unequal length: NumPy from 1.24 on raises here, older ones
        \* in griddata when the counts of points and values differ
        ELSE IF ~Rectangular(data) THEN Raised("ValueError", 182)
        \* np.hstack of no rows: need at least one array to concatenate
        ELSE IF Len(data) = 0 THEN Raised("ValueError", 184)
        \* fewer than three points, or all on one line: no triangulation
        ELSE IF Len(data) < 2 \/ Len(data[1]) < 2 THEN Raised("QhullError", 204)
        ELSE Ok

\* np.savetxt(out_filename, grid, ..., header=hstring, comments=""): the file
\* is opened for writing, created or truncated
SaveTxt(out_filename, header, grid) ==
    [fs EXCEPT ![out_filename] = FileOf(header \o grid)]

Interpolate ==
    /\ call.stage = "none"
    /\ \E in_filename \in Names, out_filename \in Names,
          res_in \in ResValues, res_out \in ResValues :
          LET status == InterpolateStatus(in_filename, res_in, out_filename, res_out)
              lines == ReadTokens(in_filename)
              V == IntData(DataOf(lines))
          IN  /\ call' = [stage |-> "interpolate", in_filename |-> in_filename,
                          res_in |-> res_in, out_filename |-> out_filename,
                          res_out |-> res_out, status |-> status]
              /\ opened' = IF status.line \in {166, 169, 172, 175}
                             THEN <<>> ELSE <<in_filename>>
              /\ IF status = Ok
                   THEN \E diag \in BOOLEAN :
                           fs' = SaveTxt(out_filename, HeaderOf(lines),
                                         InterpGrid(V, Scale(res_in, res_out), diag))
                   ELSE fs' = fs
    /\ UNCHANGED fs0

\* ------------------------------------------------------- specifications
\* one call of any stage, from either scenario
Next == Overlay \/ WipeoutTopo \/ Interpolate

Spec == Init /\ [][Next]_vars

\* the merge and the mask alone
NextMerge == Overlay \/ WipeoutTopo

SpecMerge == Init /\ [][NextMerge]_vars

\* the resampler alone, on a raster of any kind and layout
InitResample ==
    /\ \E layout \in Layouts, kind \in Kinds, r \in 0..MaxRows, c \in 1..MaxCols,
          old \in {Absent, OldFile} :
          fs = [n \in Names |->
                  CASE n = "topo"  -> Absent
                    [] n = "bathy" -> BathyFile(layout, kind, r, c)
                    [] n = "out"   -> old]
    /\ fs0 = fs
    /\ opened = <<>>
    /\ call = NoCall

NextResample == Interpolate

SpecResample == InitResample /\ [][NextResample]_vars

\* ---------------------------------------------------------------- claims
\* the grid part of a raster file, and its shape: the length of every row
GridShape(lines) == [i \in DOMAIN DataOf(lines) |-> Len(DataOf(lines)[i])]

\* the number a numeric token stands for is the same
SameNumber(s, t) == s.num * t.den = t.num * s.den

OutName == IF call.stage = "interpolate" THEN call.out_filename ELSE call.outfile

InNames ==
    CASE call.stage = "overlay"      -> {call.topo_filename, call.bathy_filename}
      [] call.stage = "wipeout_topo" -> {call.filename}
      [] call.stage = "interpolate"  -> {call.in_filename}
      [] OTHER                       -> {}

\* C1: a successful overlay of two same-shape grids writes, at every grid
\* cell (i, j), the secondary's cell (i, j) where the primary's cell is the
\* sentinel text and the primary's cell elsewhere.
C1_MergeSentinelLaw ==
    (/\ call.stage = "overlay"
     /\ call.status = Ok
     /\ GridShape(fs0[call.topo_filename].lines)
            = GridShape(fs0[call.bathy_filename].lines))
    => LET P == fs0[call.topo_filename].lines
           S == fs0[call.bathy_filename].lines
           M == fs[call.outfile].lines
       IN  /\ Len(M) = Len(P)
           /\ \A i \in DOMAIN P : i > HeaderLines =>
                /\ Len(M[i]) = Len(P[i])
                /\ \A j \in DOMAIN P[i] :
                      M[i][j] = IF P[i][j] = call.nan_value THEN S[i][j] ELSE P[i][j]

\* C2: a successful wipeout_topo rewrites every grid cell (every line after
\* the six header lines) whose value is >= 0 to val and passes every other
\* cell through.
C2_WipeoutEveryGridRow ==
    (call.stage = "wipeout_topo" /\ call.status = Ok)
    => LET D == fs0[call.filename].lines
           W == fs[call.outfile].lines
       IN  /\ Len(W) = Len(D)
           /\ \A i \in DOMAIN D : i > HeaderLines =>
                /\ Len(W[i]) = Len(D[i])
                /\ \A j \in DOMAIN D[i] : IsNumeric(D[i][j]) =>
                      W[i][j] = IF D[i][j].num >= 0 THEN call.val ELSE D[i][j]

\* C3: overlay never succeeds on two existing inputs whose grids differ in
\* shape.
C3_ShapeMismatchFails ==
    (/\ call.stage = "overlay"
     /\ fs0[call.topo_filename].exists
     /\ fs0[call.bathy_filename].exists
     /\ GridShape(fs0[call.topo_filename].lines)
            # GridShape(fs0[call.bathy_filename].lines))
    => call.status # Ok

\* C4: a stage whose output path exists before the call fails and leaves
\* that file as it was.
C4_NoOverwrite ==
    (call.stage # "none" /\ fs0[OutName].exists)
    => /\ call.status # Ok
       /\ fs[OutName] = fs0[OutName]

\* the claim's condition on the resolutions
InvalidResolution(res_in, res_out) ==
    \/ res_in.type # "int"
    \/ res_out.type # "int"
    \/ res_in.val < 1
    \/ res_out.val < 1
    \/ res_in.val < res_out.val

C6_ResampleShape ==
    (call.stage = "interpolate" /\ call.status = Ok)
    => LET D == DataOf(fs0[call.in_filename].lines)
           G == DataOf(fs[call.out_filename].lines)
           f == call.res_in.val \div call.res_out.val
       IN  /\ Len(G) = Len(D) * f
           /\ \A k \in DOMAIN G : Len(G[k]) = Len(D[1]) * f
           /\ Len(G) >= Len(D)
           /\ \A k \in DOMAIN G : Len(G[k]) >= Len(D[1])

\* a 2-row grid was upsampled by the factor 2 into 4 rows
C6_Witness ==
    /\ call.stage = "interpolate"
    /\ call.status = Ok
    /\ call.res_in = PyInt(2)
    /\ call.res_out = PyInt(1)
    /\ Len(DataOf(fs0[call.in_filename].lines)) = 2
    /\ Len(DataOf(fs[call.out_filename].lines)) = 4

\* C7: the first six lines of what a successful overlay writes are the first
\* six lines of the primary file, whatever nan_value is.
C7_MergeHeaderFrame ==
    (call.stage = "overlay" /\ call.status = Ok)
    => HeaderOf(fs[call.outfile].lines) = HeaderOf(fs0[call.topo_filename].lines)

\* C8: after a call, every input file of the call is as it was before.
C8_InputsUnchanged ==
    call.stage # "none" => \A n \in InNames : fs[n] = fs0[n]

\* C9: where a query of a successful interpolate falls on a sample, the cell
\* written stands for the same number as the input file's cell.
C9_ExactAtSamples ==
    (call.stage = "interpolate" /\ call.status = Ok)
    => LET D == DataOf(fs0[call.in_filename].lines)
           G == DataOf(fs[call.out_filename].lines)
           x == Len(D)
           y == Len(D[1])
           K == Len(G)
           L == Len(G[1])
       IN  \A k \in 1..K, l \in 1..L, i \in 1..x, j \in 1..y :
              (/\ (k - 1) * (x - 1) = (i - 1) * (K - 1)
               /\ (l - 1) * (y - 1) = (j - 1) * (L - 1))
              => SameNumber(G[k][l], D[i][j])

\* C10: an overlay or wipeout_topo that raises leaves the file system as it
\* was (no output created, none changed); one that returns has written the
\* whole output, a line for every input line.
C10_AllOrNothing ==
    call.stage \in {"overlay", "wipeout_topo"}
    => /\ call.status # Ok => fs = fs0
       /\ call.status = Ok =>
            LET src == IF call.stage = "overlay" THEN call.topo_filename
                                                ELSE call.filename
            IN  /\ ~fs0[call.outfile].exists
                /\ fs[call.outfile].exists
                /\ \A n \in Names \ {call.outfile} : fs[n] = fs0[n]
                /\ Len(fs[call.outfile].lines) = Len(fs0[src].lines)
                /\ \A i \in DOMAIN fs0[src].lines :
                      Len(fs[call.outfile].lines[i]) = Len(fs0[src].lines[i])

\* an overlay stopped by a secondary row too short for column j + 20, its
\* output path free before and after
C10_Witness ==
    /\ call.stage = "overlay"
    /\ call.status = Raised("IndexError", 117)
    /\ ~fs0[call.outfile].exists
    /\ ~fs[call.outfile].exists

=============================================================================
